---- MODULE Spec2Model ----
(***************************************************************************)
(* Model of the Tajrobe Wiki extension: the background service worker      *)
(* (src/util.js: handleNav, runLookup, clearTabData, the tab listeners)    *)
(* and the popup's storage writes (src/popup.js: candidate selection and   *)
(* the back button).                                                       *)
(*                                                                         *)
(* Strings that the code inspects (URLs, hostnames) are sequences of       *)
(* tokens, e.g. "evil-x.com" is <<"evil-", "x", ".", "com">>, so that      *)
(* prefix stripping, suffix tests and lower-casing are computed.           *)
(*                                                                         *)
(* Every `await` of the code is a scheduling point: the part of a handler  *)
(* before it and the part after it are separate actions.  A storage write  *)
(* takes effect when it is issued (chrome.storage serves one extension's   *)
(* requests in order); a storage read returns the value the store holds at *)
(* some moment between the call and the continuation, which is the action  *)
(* that performs the read.                                                 *)
(*                                                                         *)
(* Spec lets navigation events arrive at any time, so handlers and lookups *)
(* of one tab overlap.  SpecSeq delivers a navigation event only when no   *)
(* handler is in flight (the popup and tab removal still interleave) and   *)
(* draws its URLs from a larger set.                                       *)
(***************************************************************************)
EXTENDS Naturals, Sequences, FiniteSets

\* ------------------------------------------------------------------ bounds
MaxNavs == 2      \* navigation events delivered in one behaviour
MaxClicks == 2    \* popup clicks (selection or back) in one behaviour
MaxCloses == 1    \* tab-removal events in one behaviour

Tabs == {1, 2}

\* ------------------------------------------------------------------ strings
Lower(tok) ==
    CASE tok = "X" -> "x"
      [] tok = "WWW" -> "www"
      [] tok = "Google" -> "google"
      [] tok = "HTTPS" -> "https"
      [] OTHER -> tok

toLowerCase(s) == [i \in 1..Len(s) |-> Lower(s[i])]

startsWith(s, p) == Len(s) >= Len(p) /\ SubSeq(s, 1, Len(p)) = p

endsWith(s, p) == Len(s) >= Len(p) /\ SubSeq(s, Len(s) - Len(p) + 1, Len(s)) = p

\* s.replace(/^www\./, "")
stripWww(s) == IF startsWith(s, <<"www", ".">>) THEN SubSeq(s, 3, Len(s)) ELSE s

XCom == <<"x", ".", "com">>
YCom == <<"y", ".", "com">>
GoogleCom == <<"google", ".", "com">>

\* A URL string scheme ":" "//" host; scheme "" is a string with no scheme.
Url(scheme, host) == [scheme |-> scheme, host |-> host]

\* new URL(u) throws on a string with no scheme and on an http(s) URL with
\* an empty host.
urlParses(u) ==
    /\ u.scheme # ""
    /\ Lower(u.scheme) \in {"http", "https"} => u.host # <<>>

\* new URL(u).hostname: the parser lower-cases the host of an http(s) URL.
hostname(u) == IF Lower(u.scheme) \in {"http", "https"} THEN toLowerCase(u.host) ELSE u.host

Null == <<"null">>

\* getDomain(url)
getDomain(u) == IF urlParses(u) THEN stripWww(hostname(u)) ELSE Null

\* /^https?:/i.test(url)
isHttp(u) == Lower(u.scheme) \in {"http", "https"}

\* !newDomain
isFalsy(d) == d = Null \/ d = <<>>

\* Mutant of isSkipped: the subdomain test is dropped.
isSkipped_ExactOnly(d) == d = GoogleCom

\* newDomain === "google.com" || newDomain.endsWith(".google.com")
isSkipped(d) == d = GoogleCom \/ endsWith(d, <<".">> \o GoogleCom)

\* ------------------------------------------------------------------ storage
\* One record per tab: the four keys domain_, status_, profile_, last_results_.
\* An absent key reads as undefined: NoDomain, NoStatus, Absent.
NoDomain == <<>>
NoStatus == "undefined"
Absent == [t |-> "undefined"]
NullProfile == [t |-> "null"]

\* A profile record of the profile endpoint; q is the domain whose search
\* produced the slug it was fetched by.
Rec(slug, q) == [t |-> "rec", slug |-> slug, q |-> q]

\* A candidate array of the search endpoint for the query q.
Arr(items, q) == [t |-> "arr", items |-> items, q |-> q]

EmptyTab == [domain |-> NoDomain, status |-> NoStatus, profile |-> Absent, last |-> Absent]

\* ICON[status] || ICON.falild
ICON(status) ==
    CASE status = "searching" -> "searching.png"
      [] status = "success" -> "success.png"
      [] status = "data_returned" -> "success.png"
      [] status = "no_data" -> "no-data.png"
      [] OTHER -> "falild.png"

\* Mutant of KEY: the keys are not named by the tab.
KEY_Shared(tabId) == 1

\* KEY: the keys domain_, status_ and profile_ of a tab end in its own tabId,
\* so that tabId names the tab's slot of the store.
KEY(tabId) == tabId

VARIABLES
    open,     \* open[t]: tab t exists
    page,     \* page[t]: the resolved domain of the page tab t shows, if any
    store,    \* store[t]: the tab's keys in chrome.storage.local
    icon,     \* icon[t]: the toolbar icon of the tab
    proc,     \* proc[n]: the handler of the n-th navigation event and its lookup
    nnav,     \* navigation events delivered so far
    popup,    \* the popup's candidate-selection handler
    nclick,   \* popup clicks so far
    nclose    \* tab-removal events so far

vars == <<open, page, store, icon, proc, nnav, popup, nclick, nclose>>

Navs == 1..MaxNavs

NoResp == [t |-> "none"]

NoProc == [pc |-> "none", tab |-> 0, domain |-> NoDomain, dom |-> NoDomain,
           sJson |-> NoResp, pJson |-> NoResp, reqs |-> <<>>,
           wr |-> <<>>, stale |-> FALSE]

NoPopup == [pc |-> "idle", tab |-> 0, list |-> Absent, slug |-> ""]

Init ==
    /\ open = [t \in Tabs |-> FALSE]
    /\ page = [t \in Tabs |-> NoDomain]
    /\ store = [t \in Tabs |-> EmptyTab]
    /\ icon = [t \in Tabs |-> "falild.png"]
    /\ proc = [n \in Navs |-> NoProc]
    /\ nnav = 0
    /\ popup = NoPopup
    /\ nclick = 0
    /\ nclose = 0


\* ------------------------------------------------------------------ network
Cand(slug, url) == [slug |-> slug, url |-> url]

CandX == Cand("x", Url("https", <<"WWW", ".", "X", ".", "com">>))
CandShop == Cand("shop", Url("https", <<"shop", ".", "x", ".", "com">>))
CandEvil == Cand("evil", Url("https", <<"evil-", "x", ".", "com">>))
CandBad == Cand("bad", Url("", XCom))
CandY == Cand("y", Url("https", YCom))

Candidates == {CandX, CandShop, CandEvil, CandBad, CandY}

Fail == [t |-> "fail"]

Ok(data) == [t |-> "ok", data |-> data]

\* What the search endpoint may answer: a failure (the fetch rejects or the
\* body is no JSON), no data (an empty or missing array), one candidate, or
\* several.
SearchResponses ==
    {Fail, Ok(<<>>), Ok(<<CandX, CandShop>>)} \cup {Ok(<<c>>) : c \in Candidates}

\* What the profile endpoint may answer for a slug found by a search for q.
ProfileResponses(slug, q) == {Fail, Ok(NullProfile), Ok(Rec(slug, q))}

\* ------------------------------------------------------------------ helpers
\* chrome.action.setIcon({tabId, path}): fails, with no effect, for a tab
\* that no longer exists.
setIcon(ic, op, t, status) == IF op[t] THEN [ic EXCEPT ![t] = ICON(status)] ELSE ic

\* clearTabData's chrome.storage.local.remove, on the record of one tab
clearTabData(r, keepDomain) ==
    [r EXCEPT !.profile = Absent, !.status = NoStatus,
              !.domain = IF keepDomain THEN @ ELSE NoDomain]

\* the onRemoved listener's chrome.storage.local.remove
removeTabKeys(r) == [r EXCEPT !.profile = Absent, !.status = NoStatus, !.domain = NoDomain]

\* candidateHost of runLookup
candidateHost(c) ==
    IF urlParses(c.url) THEN toLowerCase(stripWww(hostname(c.url))) ELSE <<>>

\* Mutant of isMatch: the equality test is dropped.
isMatch_SuffixOnly(host, realDomain) == endsWith(host, <<".">> \o realDomain)

\* Mutant of isMatch: the suffix test without the leading ".".
isMatch_NoDot(host, realDomain) == host = realDomain \/ endsWith(host, realDomain)

\* isMatch of runLookup
isMatch(host, realDomain) == host = realDomain \/ endsWith(host, <<".">> \o realDomain)

\* sJson && Array.isArray(sJson.data) && sJson.data.length > 0
hasData(sJson) == Len(sJson.data) > 0

\* Mutant of isMultiple: two candidates are handled as one.
isMultiple_OverTwo(sJson) == Len(sJson.data) > 2

\* sJson.data.length > 1
isMultiple(sJson) == Len(sJson.data) > 1

\* const candidate = sJson.data[0]
firstCandidate(sJson) == sJson.data[1]

\* const slug = candidate.slug: the slug of the profile request
requestedSlug(sJson) == firstCandidate(sJson).slug

\* pJson?.data ?? null
dataOrNull(pJson) == IF pJson.data = Absent THEN NullProfile ELSE pJson.data

LookupPcs == {"aRead", "aCont", "search", "bRead", "bCont", "multiWait",
              "profile", "cRead", "cCont", "finalWait"}

\* History: a runLookup invocation is stale once the stored domain of its tab
\* has differed from the domain it was called with.
Mark(p, st) ==
    [n \in Navs |->
        IF p[n].pc \in LookupPcs /\ st[p[n].tab].domain # p[n].domain
        THEN [p[n] EXCEPT !.stale = TRUE]
        ELSE p[n]]

\* A finished handler: its locals are gone.
Finished == [NoProc EXCEPT !.pc = "done"]

\* History: the statuses a runLookup invocation has written so far.
\* An invocation that ended in the catch block of runLookup (console.error)
Caught == [NoProc EXCEPT !.pc = "caught"]

Wrote(p, status) == IF p.pc \in {"done", "caught"} THEN p ELSE [p EXCEPT !.wr = Append(@, status)]

\* ------------------------------------------------------------------ handleNav
\* The synchronous part of handleNav(tabId, url), up to its first await.
handleNav(n, t, u) ==
    LET newDomain == getDomain(u) IN
    IF ~isHttp(u) \/ isFalsy(newDomain)
    THEN /\ store' = [store EXCEPT ![KEY(t)] = clearTabData(@, FALSE)]
         /\ icon' = setIcon(icon, open', t, "falild")
         /\ proc' = Mark([proc EXCEPT ![n] = Finished], store')
    ELSE IF isSkipped(newDomain)
    THEN /\ store' = [store EXCEPT ![KEY(t)].domain = newDomain, ![KEY(t)].status = "no_data"]
         /\ icon' = icon
         /\ proc' = Mark([proc EXCEPT ![n] =
                [NoProc EXCEPT !.pc = "skipWait", !.tab = t, !.domain = newDomain]], store')
    ELSE /\ store' = store
         /\ icon' = icon
         /\ proc' = [proc EXCEPT ![n] =
                [NoProc EXCEPT !.pc = "oldRead", !.tab = t, !.domain = newDomain]]

\* The domain of the page a committed top-frame URL shows: none for a URL
\* that is not http(s) or has no host.
resolved(u) == IF isHttp(u) /\ ~isFalsy(getDomain(u)) THEN getDomain(u) ELSE NoDomain

\* chrome.webNavigation.onCommitted: only the top frame is handled.
onCommitted(t, u, frameId) ==
    /\ nnav < MaxNavs
    /\ nnav' = nnav + 1
    /\ open' = [open EXCEPT ![t] = TRUE]
    /\ IF frameId = 0
       THEN /\ page' = [page EXCEPT ![t] = resolved(u)]
            /\ handleNav(nnav + 1, t, u)
       ELSE UNCHANGED <<page, store, icon, proc>>
    /\ UNCHANGED <<popup, nclick, nclose>>

\* handleNav after `await setLocal` of the skip rule: setIcon(tabId, "no_data")
SkipCont(n) ==
    /\ proc[n].pc = "skipWait"
    /\ icon' = setIcon(icon, open, proc[n].tab, "no_data")
    /\ proc' = [proc EXCEPT ![n] = Finished]
    /\ UNCHANGED <<open, page, store, nnav, popup, nclick, nclose>>

\* The store answers getLocal([KEY.domain(tabId)]) of handleNav or runLookup.
ReadDomain(n, at, to) ==
    /\ proc[n].pc = at
    /\ proc' = [proc EXCEPT ![n].dom = store[KEY(proc[n].tab)].domain, ![n].pc = to]
    /\ UNCHANGED <<open, page, store, icon, nnav, popup, nclick, nclose>>

OldRead(n) == ReadDomain(n, "oldRead", "oldCont")

\* handleNav after `await getLocal`: clear on a domain change, write the domain
OldCont(n) ==
    LET t == proc[n].tab
        oldDomain == proc[n].dom
        changed == oldDomain # NoDomain /\ oldDomain # proc[n].domain
        cleared == IF changed THEN clearTabData(store[KEY(t)], TRUE) ELSE store[KEY(t)]
    IN
    /\ proc[n].pc = "oldCont"
    /\ store' = [store EXCEPT ![KEY(t)] = [cleared EXCEPT !.domain = proc[n].domain]]
    /\ icon' = IF changed THEN setIcon(icon, open, t, "falild") ELSE icon
    /\ proc' = Mark([proc EXCEPT ![n].pc = "setWait", ![n].dom = NoDomain], store')
    /\ UNCHANGED <<open, page, nnav, popup, nclick, nclose>>

\* handleNav after `await setLocal`: runLookup(tabId, newDomain) runs up to
\* its first await.
SetCont(n) ==
    /\ proc[n].pc = "setWait"
    /\ proc' = Mark([proc EXCEPT ![n].pc = "aRead"], store)
    /\ UNCHANGED <<open, page, store, icon, nnav, popup, nclick, nclose>>


\* ------------------------------------------------------------------ runLookup
ARead(n) == ReadDomain(n, "aRead", "aCont")

BRead(n) == ReadDomain(n, "bRead", "bCont")

CRead(n) == ReadDomain(n, "cRead", "cCont")

\* setStatus(tabId, status) by the invocation n, which then goes on as `next`
SetStatus(n, status, next) ==
    LET t == proc[n].tab IN
    /\ store' = [store EXCEPT ![KEY(t)].status = status]
    /\ icon' = setIcon(icon, open, t, status)
    /\ proc' = Mark([proc EXCEPT ![n] = Wrote(next, status)], store')

\* `return` with no write
Return(n) ==
    /\ proc' = [proc EXCEPT ![n] = Finished]
    /\ UNCHANGED <<store, icon>>

\* Guard A, then setStatus(tabId, "searching") and the search request
ACont(n) ==
    /\ proc[n].pc = "aCont"
    /\ IF proc[n].dom # proc[n].domain
       THEN Return(n)
       ELSE SetStatus(n, "searching", [proc[n] EXCEPT !.pc = "search", !.dom = NoDomain,
                                                      !.reqs = Append(@, "search")])
    /\ UNCHANGED <<open, page, nnav, popup, nclick, nclose>>

\* Mutant of SearchDone: no catch block, a failed request ends the invocation
\* with no write.
SearchDone_Uncaught(n) ==
    /\ proc[n].pc = "search"
    /\ \E resp \in SearchResponses :
       IF resp = Fail
       THEN /\ proc' = [proc EXCEPT ![n] = Caught]
            /\ UNCHANGED <<store, icon>>
       ELSE /\ proc' = [proc EXCEPT ![n].sJson = resp, ![n].pc = "bRead"]
            /\ UNCHANGED <<store, icon>>
    /\ UNCHANGED <<open, page, nnav, popup, nclick, nclose>>

\* Mutant of SearchDone: a failed search request is issued once more.
SearchDone_Retry(n) ==
    /\ proc[n].pc = "search"
    /\ \E resp \in SearchResponses :
       IF resp = Fail
       THEN IF Len(proc[n].reqs) < 2
            THEN /\ proc' = [proc EXCEPT ![n].reqs = Append(@, "search")]
                 /\ UNCHANGED <<store, icon>>
            ELSE SetStatus(n, "no_data", Caught)
       ELSE /\ proc' = [proc EXCEPT ![n].sJson = resp, ![n].pc = "bRead"]
            /\ UNCHANGED <<store, icon>>
    /\ UNCHANGED <<open, page, nnav, popup, nclick, nclose>>

\* The search request completes; a failure is caught: setStatus(tabId, "no_data")
SearchDone(n) ==
    /\ proc[n].pc = "search"
    /\ \E resp \in SearchResponses :
       IF resp = Fail
       THEN SetStatus(n, "no_data", Caught)
       ELSE /\ proc' = [proc EXCEPT ![n].sJson = resp, ![n].pc = "bRead"]
            /\ UNCHANGED <<store, icon>>
    /\ UNCHANGED <<open, page, nnav, popup, nclick, nclose>>

\* Guard B, then the branches on the search result
BCont(n) ==
    LET t == proc[n].tab
        domain == proc[n].domain
        sJson == proc[n].sJson
        candidate == firstCandidate(sJson)
        realDomain == toLowerCase(domain)
    IN
    /\ proc[n].pc = "bCont"
    /\ IF proc[n].dom # domain
       THEN Return(n)
       ELSE IF hasData(sJson)
       THEN IF isMultiple(sJson)
            THEN /\ store' = [store EXCEPT ![KEY(t)].status = "multiple_results",
                                           ![KEY(t)].profile = Arr(sJson.data, domain)]
                 /\ icon' = icon
                 /\ proc' = Mark([proc EXCEPT ![n] =
                        Wrote([proc[n] EXCEPT !.pc = "multiWait", !.dom = NoDomain],
                              "multiple_results")], store')
            ELSE IF ~isMatch(candidateHost(candidate), realDomain)
            THEN SetStatus(n, "no_data", Finished)
            ELSE SetStatus(n, "success", [proc[n] EXCEPT !.pc = "profile", !.dom = NoDomain,
                                                         !.reqs = Append(@, "profile")])
       ELSE SetStatus(n, "no_data", Finished)
    /\ UNCHANGED <<open, page, nnav, popup, nclick, nclose>>

\* runLookup after `await setLocal` of the multiple-results write
MultiCont(n) ==
    /\ proc[n].pc = "multiWait"
    /\ icon' = setIcon(icon, open, proc[n].tab, "success")
    /\ proc' = [proc EXCEPT ![n] = Finished]
    /\ UNCHANGED <<open, page, store, nnav, popup, nclick, nclose>>

\* The profile request for candidate.slug completes; a failure is caught.
ProfileDone(n) ==
    /\ proc[n].pc = "profile"
    /\ \E resp \in ProfileResponses(requestedSlug(proc[n].sJson), proc[n].domain) :
       IF resp = Fail
       THEN SetStatus(n, "no_data", Caught)
       ELSE /\ proc' = [proc EXCEPT ![n].pJson = resp, ![n].pc = "cRead"]
            /\ UNCHANGED <<store, icon>>
    /\ UNCHANGED <<open, page, nnav, popup, nclick, nclose>>

\* Guard C, then the write of the profile and of data_returned
CCont(n) ==
    LET t == proc[n].tab IN
    /\ proc[n].pc = "cCont"
    /\ IF proc[n].dom # proc[n].domain
       THEN Return(n)
       ELSE /\ store' = [store EXCEPT ![KEY(t)].profile = dataOrNull(proc[n].pJson),
                                      ![KEY(t)].status = "data_returned"]
            /\ icon' = icon
            /\ proc' = Mark([proc EXCEPT ![n] =
                   Wrote([proc[n] EXCEPT !.pc = "finalWait", !.dom = NoDomain],
                         "data_returned")], store')
    /\ UNCHANGED <<open, page, nnav, popup, nclick, nclose>>

\* runLookup after the last `await setLocal`: setIcon(tabId, "data_returned")
FinalCont(n) ==
    /\ proc[n].pc = "finalWait"
    /\ icon' = setIcon(icon, open, proc[n].tab, "data_returned")
    /\ proc' = [proc EXCEPT ![n] = Finished]
    /\ UNCHANGED <<open, page, store, nnav, popup, nclick, nclose>>

\* ------------------------------------------------------------------ tab removal
\* chrome.tabs.onRemoved; the browser drops the tab's icon and its popup.
onRemoved(t) ==
    /\ open[t]
    /\ nclose < MaxCloses
    /\ nclose' = nclose + 1
    /\ open' = [open EXCEPT ![t] = FALSE]
    /\ page' = [page EXCEPT ![t] = NoDomain]
    /\ store' = [store EXCEPT ![KEY(t)] = removeTabKeys(@)]
    /\ icon' = [icon EXCEPT ![t] = "falild.png"]
    /\ popup' = IF popup.tab = t THEN NoPopup ELSE popup
    /\ proc' = Mark(proc, store')
    /\ UNCHANGED <<nnav, nclick>>

\* ------------------------------------------------------------------ popup
\* A click on the item `i` of the list rendered for multiple_results: the
\* handler requests the profile of result.slug.
PopupSelect(t, i) ==
    /\ open[t]
    /\ popup.pc = "idle"
    /\ nclick < MaxClicks
    /\ store[t].status = "multiple_results"
    /\ store[t].profile.t = "arr"
    /\ i \in 1..Len(store[t].profile.items)
    /\ nclick' = nclick + 1
    /\ popup' = [pc |-> "fetch", tab |-> t, list |-> store[t].profile,
                 slug |-> store[t].profile.items[i].slug]
    /\ UNCHANGED <<open, page, store, icon, proc, nnav, nclose>>

\* Mutant of selectWrite: the list that was shown is not kept.
selectWrite_NoLast(r, data, list) ==
    [r EXCEPT !.profile = data, !.status = "data_returned"]

\* The write of the click handler
selectWrite(r, data, list) ==
    [r EXCEPT !.profile = data, !.status = "data_returned", !.last = list]

\* The request of the click handler completes. A failure rejects the handler
\* before its write.
PopupDone ==
    /\ popup.pc = "fetch"
    /\ popup' = NoPopup
    /\ \E resp \in ProfileResponses(popup.slug, popup.list.q) :
       IF resp = Fail
       THEN /\ UNCHANGED store
            /\ proc' = proc
       ELSE /\ store' = [store EXCEPT ![popup.tab] =
                   selectWrite(@, dataOrNull(resp), popup.list)]
            /\ proc' = Mark(proc, store')
    /\ UNCHANGED <<open, page, icon, nnav, nclick, nclose>>

\* Mutant of backWrite: the status is written without the list.
backWrite_StatusOnly(r) == [r EXCEPT !.status = "multiple_results"]

\* The write of the back button
backWrite(r) == [r EXCEPT !.profile = r.last, !.status = "multiple_results"]

\* The back button, shown for data_returned when last_results is stored
PopupBack(t) ==
    /\ open[t]
    /\ nclick < MaxClicks
    /\ store[t].status = "data_returned"
    /\ store[t].last # Absent
    /\ nclick' = nclick + 1
    /\ store' = [store EXCEPT ![t] = backWrite(@)]
    /\ UNCHANGED <<open, page, icon, proc, nnav, popup, nclose>>

\* ------------------------------------------------------------------ system
\* The URLs of the navigation events while handlers overlap
NavUrls ==
    { Url("https", <<"www", ".", "x", ".", "com">>),
      Url("https", YCom),
      Url("https", <<"mail", ".", "google", ".", "com">>),
      Url("chrome", <<"newtab">>) }

\* The URLs of the navigation events that arrive one after the other
AllUrls ==
    { Url("https", <<"www", ".", "x", ".", "com">>),
      Url("https", <<"x", "google", ".", "com">>),
      Url("https", <<"mail", ".", "google", ".", "com">>),
      Url("HTTPS", <<"WWW", ".", "Google", ".", "com">>),
      Url("chrome", <<"newtab">>),
      Url("about", <<>>),
      Url("http", <<>>),
      Url("https", <<"www", ".">>) }

\* No handler and no lookup is in flight.
Quiescent == \A n \in Navs : proc[n].pc \in {"none", "done", "caught"}

Step(n) ==
    \/ SkipCont(n)
    \/ OldRead(n)
    \/ OldCont(n)
    \/ SetCont(n)
    \/ ARead(n)
    \/ ACont(n)
    \/ SearchDone(n)
    \/ BRead(n)
    \/ BCont(n)
    \/ MultiCont(n)
    \/ ProfileDone(n)
    \/ CRead(n)
    \/ CCont(n)
    \/ FinalCont(n)

Background ==
    \/ \E n \in Navs : Step(n)
    \/ \E t \in Tabs : onRemoved(t)

Popup ==
    \/ \E t \in Tabs, i \in 1..2 : PopupSelect(t, i)
    \/ PopupDone
    \/ \E t \in Tabs : PopupBack(t)

\* Navigation events arrive at any time.
Next ==
    \/ \E t \in Tabs, u \in NavUrls, frameId \in {0, 1} : onCommitted(t, u, frameId)
    \/ Background
    \/ Popup

Spec == Init /\ [][Next]_vars

\* A navigation event arrives when the handlers of the earlier ones have ended.
NextSeq ==
    \/ /\ Quiescent
       /\ \E t \in Tabs, u \in AllUrls, frameId \in {0, 1} : onCommitted(t, u, frameId)
    \/ Background
    \/ Popup

SpecSeq == Init /\ [][NextSeq]_vars


\* ------------------------------------------------------------------ claims
TabOf(n) == proc[n].tab

\* The invocation n takes a step.
Steps(n) == proc'[n].pc # proc[n].pc

\* C1: once the stored domain has differed from the domain a runLookup
\* invocation was called with, no step of that invocation changes the status
\* or the profile of its tab.
C1_StalenessGuard ==
    [][\A n \in Navs :
        (proc[n].pc \in LookupPcs /\ proc[n].stale /\ Steps(n)) =>
            /\ store'[TabOf(n)].status = store[TabOf(n)].status
            /\ store'[TabOf(n)].profile = store[TabOf(n)].profile]_vars

\* C2: a profile record stored with status data_returned was fetched for the
\* domain the tab stores now.
C2_ProfileOfCurrentDomain ==
    \A t \in Tabs :
        (store[t].status = "data_returned" /\ store[t].profile.t = "rec") =>
            store[t].profile.q = store[t].domain

\* C3: the tab-removal event leaves none of the four keys of the tab.
C3_RemovalClearsAllKeys ==
    [][\A t \in Tabs : (open[t] /\ ~open'[t]) => store'[t] = EmptyTab]_vars

\* C4: after the handler of a top-frame navigation to a URL that is not
\* http(s), or whose domain does not resolve, the tab has no stored domain,
\* status, profile or last results, its icon is the idle icon and no lookup
\* was started.
C4_NonHttpClearsAll ==
    [][\A t \in Tabs, u \in NavUrls \cup AllUrls :
        (onCommitted(t, u, 0) /\ (~isHttp(u) \/ isFalsy(getDomain(u)))) =>
            /\ store'[t] = EmptyTab
            /\ icon'[t] = "falild.png"
            /\ proc'[nnav'].pc = "done"]_vars

\* The denylist as the claim words it
Denylisted(d) == d = GoogleCom \/ endsWith(d, <<".", "google", ".", "com">>)

HandlerPcs == {"oldRead", "oldCont", "setWait"}

\* C5: a top-frame navigation to google.com or a subdomain of it stores the
\* new domain and the status no_data, starts no lookup (so no search and no
\* profile request), and its handler ends by setting the no-data icon.
C5_SkipRule ==
    [][/\ \A t \in Tabs, u \in AllUrls :
            (onCommitted(t, u, 0) /\ isHttp(u) /\ Denylisted(getDomain(u))) =>
                /\ store'[t].domain = getDomain(u)
                /\ store'[t].status = "no_data"
                /\ proc'[nnav'].pc = "skipWait"
                /\ proc'[nnav'].tab = t
       /\ \A n \in Navs :
            /\ proc'[n].pc \in HandlerPcs \cup LookupPcs => ~Denylisted(proc'[n].domain)
            /\ proc[n].pc = "skipWait" => proc'[n].pc \in {"skipWait", "done"}
            /\ (proc[n].pc = "skipWait" /\ Steps(n) /\ open[TabOf(n)]) =>
                   icon'[TabOf(n)] = "no-data.png"]_vars

C5_Witness ==
    \E t \in Tabs :
        /\ store[t].domain = <<"mail", ".", "google", ".", "com">>
        /\ store[t].status = "no_data"
        /\ icon[t] = "no-data.png"
        /\ \E n \in Navs : proc[n].pc = "done"

\* The hostname of a candidate as the claims word it: leading "www."
\* stripped, compared without case; "" when the URL does not parse.
ClaimHost(c) == IF urlParses(c.url) THEN toLowerCase(stripWww(hostname(c.url))) ELSE <<>>

\* The invocation n holds a search result of exactly one candidate.
OneCandidate(n) == proc[n].sJson.t = "ok" /\ Len(proc[n].sJson.data) = 1

\* C6: when the stored domain stays the domain of the invocation, the search
\* returned one candidate whose hostname equals the domain and the profile
\* request succeeded, the invocation writes searching, success and
\* data_returned in this order, and its last write stores data_returned with
\* the record fetched by the candidate's slug (null when there is none).
C6_RoundTrip ==
    [][\A n \in Navs :
        LET p == proc[n]
            t == p.tab
            exact == /\ OneCandidate(n)
                     /\ ClaimHost(p.sJson.data[1]) = toLowerCase(p.domain)
        IN
        /\ (p.pc = "bCont" /\ ~p.stale /\ Steps(n) /\ exact) =>
               /\ proc'[n].pc = "profile"
               /\ proc'[n].wr = <<"searching", "success">>
               /\ store'[t].status = "success"
        /\ (p.pc = "cCont" /\ ~p.stale /\ Steps(n) /\ exact) =>
               /\ proc'[n].pc = "finalWait"
               /\ proc'[n].wr = <<"searching", "success", "data_returned">>
               /\ store'[t].status = "data_returned"
               /\ store'[t].profile =
                      IF p.pJson.data.t = "rec"
                      THEN Rec(p.sJson.data[1].slug, p.domain)
                      ELSE NullProfile]_vars

C6_Witness ==
    \E n \in Navs :
        /\ proc[n].pc = "finalWait"
        /\ ~proc[n].stale
        /\ proc[n].domain = XCom
        /\ proc[n].sJson = Ok(<<CandX>>)
        /\ proc[n].wr = <<"searching", "success", "data_returned">>
        /\ store[TabOf(n)].status = "data_returned"
        /\ store[TabOf(n)].profile = Rec("x", XCom)

\* The validation as the claim words it
ClaimMatch(c, domain) ==
    \/ ClaimHost(c) = toLowerCase(domain)
    \/ endsWith(ClaimHost(c), <<".">> \o toLowerCase(domain))

\* C7: with exactly one candidate, the invocation goes on to the profile
\* request if and only if the candidate's hostname equals the queried domain
\* or ends with "." and the domain; otherwise it sets no_data and ends.
C7_Validation ==
    [][\A n \in Navs :
        LET p == proc[n] IN
        (p.pc = "bCont" /\ p.dom = p.domain /\ Steps(n) /\ OneCandidate(n)) =>
            IF ClaimMatch(p.sJson.data[1], p.domain)
            THEN /\ proc'[n].pc = "profile"
                 /\ store'[p.tab].status = "success"
            ELSE /\ proc'[n].pc = "done"
                 /\ store'[p.tab].status = "no_data"]_vars

C7_Witness ==
    \E n \in Navs :
        /\ proc[n].pc = "profile"
        /\ proc[n].domain = XCom
        /\ proc[n].sJson = Ok(<<CandShop>>)
        /\ store[TabOf(n)].status = "success"

\* C8: a lookup that passes guard B with two or more candidates stores
\* multiple_results and the whole candidate array in one write, requests no
\* profile, and ends by setting the success icon; only a lookup with exactly
\* one candidate requests a profile.
C8_MultipleResults ==
    [][\A n \in Navs :
        LET p == proc[n] IN
        /\ (p.pc = "bCont" /\ p.dom = p.domain /\ Steps(n) /\ Len(p.sJson.data) >= 2) =>
               /\ proc'[n].pc = "multiWait"
               /\ store'[p.tab].status = "multiple_results"
               /\ store'[p.tab].profile = Arr(p.sJson.data, p.domain)
        /\ p.pc = "multiWait" => proc'[n].pc \in {"multiWait", "done"}
        /\ (p.pc = "multiWait" /\ Steps(n) /\ open[p.tab]) => icon'[p.tab] = "success.png"
        /\ proc'[n].pc \in {"profile", "cRead", "cCont", "finalWait"} =>
               Len(proc'[n].sJson.data) = 1]_vars

C8_Witness ==
    \E n \in Navs :
        /\ proc[n].pc = "multiWait"
        /\ store[TabOf(n)].status = "multiple_results"
        /\ store[TabOf(n)].profile = Arr(<<CandX, CandShop>>, proc[n].domain)

\* C9: last results are stored only for the current domain of the tab, with
\* the profile that was selected from them (or, after the back button, the
\* list itself).
C9_LastResultsOnlyForSelection ==
    \A t \in Tabs :
        store[t].last # Absent =>
            /\ store[t].last.q = store[t].domain
            /\ \/ store[t].profile = store[t].last
               \/ store[t].profile = NullProfile
               \/ \E i \in 1..Len(store[t].last.items) :
                      store[t].profile = Rec(store[t].last.items[i].slug, store[t].last.q)

\* C10: when a lookup passes guard B and ends with no_data, for an empty
\* result or a candidate that fails the validation, the stored profile is
\* null or absent afterwards.
C10_NoDataClearsProfile ==
    [][\A n \in Navs :
        (proc[n].pc = "bCont" /\ proc[n].dom = proc[n].domain /\ proc'[n].pc = "done") =>
            /\ store'[TabOf(n)].status = "no_data"
            /\ store'[TabOf(n)].profile \in {Absent, NullProfile}]_vars

\* C11: a search or profile request that fails (or whose response does not
\* parse) ends the invocation in the catch block: the status of its tab
\* becomes no_data with the no-data icon, nothing else in the store changes,
\* and no other handler, listener or popup state is touched, so the events
\* that follow are handled as before.
C11_FailureIsCaught ==
    [][\A n \in Navs :
        (/\ proc[n].pc \in {"search", "profile"}
         /\ Steps(n)
         /\ proc'[n].pc \notin {"bRead", "cRead"}) =>
            /\ proc'[n] = Caught
            /\ store' = [store EXCEPT ![TabOf(n)].status = "no_data"]
            /\ icon' = IF open[TabOf(n)]
                       THEN [icon EXCEPT ![TabOf(n)] = "no-data.png"]
                       ELSE icon
            /\ \A m \in Navs \ {n} : proc'[m] = proc[m]
            /\ UNCHANGED <<open, page, nnav, popup, nclick, nclose>>]_vars

\* The first navigation's lookup has failed, its tab shows no_data, and the
\* handler of the next navigation has run up to its own search request.
C11_Witness ==
    /\ proc[1].pc = "caught"
    /\ proc[2].pc = "search"
    /\ \E t \in Tabs :
           /\ store[t].status = "no_data"
           /\ icon[t] = "no-data.png"
           /\ store[t].domain = XCom

\* The icon the claim C12 maps a status to.
ClaimIcon(status) ==
    CASE status = "searching" -> "searching.png"
      [] status \in {"success", "data_returned", "multiple_results"} -> "success.png"
      [] status = "no_data" -> "no-data.png"
      [] OTHER -> "falild.png"

\* C12: in every state the icon of an open tab is the icon of the status
\* that is stored for the tab.
C12_IconMatchesStatus ==
    \A t \in Tabs : open[t] => icon[t] = ClaimIcon(store[t].status)

\* C13: when the handler of a top-frame navigation to a looked-up domain
\* writes the new domain, a stored domain that differs from it has the
\* profile, the status and the last results of the tab removed with it, and
\* an equal stored domain has nothing changed; the handler then starts one
\* runLookup for the new domain, and nothing else starts one.
C13_DomainChangeClears ==
    [][\A n \in Navs :
        LET t == TabOf(n)
            newDomain == proc[n].domain
        IN
        /\ (proc[n].pc = "oldCont" /\ Steps(n)) =>
               /\ proc'[n].pc = "setWait"
               /\ store'[t].domain = newDomain
               /\ store[t].domain \notin {NoDomain, newDomain} =>
                      store'[t] = [EmptyTab EXCEPT !.domain = newDomain]
               /\ store[t].domain = newDomain => store'[t] = store[t]
        /\ (proc[n].pc = "setWait" /\ Steps(n)) =>
               /\ proc'[n].pc = "aRead"
               /\ proc'[n].domain = newDomain
               /\ store' = store
        /\ (proc'[n].pc = "aRead" /\ Steps(n)) => proc[n].pc = "setWait"]_vars

\* No navigation handler of the tab t is between its start and its call of
\* runLookup.
HandlersDone(t) ==
    \A n \in Navs : proc[n].tab = t => proc[n].pc \notin HandlerPcs \cup {"skipWait"}

\* C14: once every navigation handler of an open tab has completed, the
\* stored domain of the tab is the resolved domain of the navigation that was
\* committed last, and is absent if that navigation has no resolved domain.
C14_LastNavigationWins ==
    \A t \in Tabs : (open[t] /\ HandlersDone(t)) => store[t].domain = page[t]

\* C15: a click on a candidate is made on the list L stored with
\* multiple_results; the write of its handler sets, in one step, the profile
\* to the fetched one, the status to data_returned and the last results to
\* L; nothing else writes the last results; the back button writes the last
\* results as profile with status multiple_results. So the back button
\* after a selection stores the list the selection was made from.
C15_SelectThenBack ==
    [][/\ (popup.pc = "idle" /\ popup'.pc = "fetch") =>
            /\ store[popup'.tab].status = "multiple_results"
            /\ popup'.list = store[popup'.tab].profile
            /\ store' = store
       /\ (popup.pc = "fetch" /\ popup'.pc = "idle" /\ open' = open /\ store' # store) =>
            \E resp \in ProfileResponses(popup.slug, popup.list.q) \ {Fail} :
                store' = [store EXCEPT ![popup.tab] =
                             [domain |-> @.domain, status |-> "data_returned",
                              profile |-> dataOrNull(resp), last |-> popup.list]]
       /\ (nclick' # nclick /\ popup' = popup) =>
            \E t \in Tabs :
                /\ store[t].status = "data_returned"
                /\ store' = [store EXCEPT ![t].profile = store[t].last,
                                          ![t].status = "multiple_results"]
       /\ \A t \in Tabs :
            store'[t].last # store[t].last =>
                popup.pc = "fetch" /\ popup.tab = t /\ store'[t].last = popup.list]_vars

\* A candidate of the list of two was selected and the back button pressed:
\* the list is stored again, as the profile and as the last results.
C15_Witness ==
    /\ nclick = 2
    /\ \E t \in Tabs :
           /\ store[t].status = "multiple_results"
           /\ store[t].last # Absent
           /\ store[t].profile = store[t].last
           /\ Len(store[t].profile.items) = 2

\* The step leaves the keys and the icon of every tab but t as they are.
OthersUnchanged(t) ==
    \A u \in Tabs \ {t} : store'[u] = store[u] /\ icon'[u] = icon[u]

\* C16: a navigation event of the tab t, a step of a handler or of a
\* runLookup invocation of t, and the removal of t change no key and no icon
\* of another tab.
C16_OtherTabsUntouched ==
    [][/\ \A t \in Tabs, u \in NavUrls \cup AllUrls, frameId \in {0, 1} :
            onCommitted(t, u, frameId) => OthersUnchanged(t)
       /\ \A n \in Navs :
            (proc[n].pc # "none" /\ Steps(n)) => OthersUnchanged(TabOf(n))
       /\ \A t \in Tabs :
            (open[t] /\ ~open'[t]) => OthersUnchanged(t)]_vars

\* Tab 1 holds the result of its lookup while the handler of a navigation of
\* tab 2 has stored the status of a skipped domain.
C16_Witness ==
    /\ store[1].status = "data_returned"
    /\ icon[1] = "success.png"
    /\ store[2].status = "no_data"
    /\ icon[2] = "no-data.png"
    /\ store[2].domain # store[1].domain

\* C17: the handler of a navigation starts runLookup once; an invocation
\* issues at most one search request and then at most one profile request;
\* the search request is issued on passing guard A, the profile request on
\* passing guard B with one candidate that passes the validation; the
\* completion of a request, failed or not, issues no request again.
C17_OneRequestEach ==
    [][\A n \in Navs :
        /\ proc'[n].reqs \in {<<>>, <<"search">>, <<"search", "profile">>}
        /\ (proc'[n].pc = "aRead" /\ Steps(n)) => proc[n].pc = "setWait"
        /\ (proc'[n].reqs # proc[n].reqs /\ proc'[n].reqs = <<"search">>) =>
               /\ proc[n].pc = "aCont"
               /\ proc[n].reqs = <<>>
        /\ (proc'[n].reqs # proc[n].reqs /\ proc'[n].reqs = <<"search", "profile">>) =>
               /\ proc[n].pc = "bCont"
               /\ proc[n].reqs = <<"search">>
               /\ OneCandidate(n)
               /\ ClaimMatch(proc[n].sJson.data[1], proc[n].domain)
        /\ (proc[n].pc \in {"search", "profile"} /\ proc'[n] # proc[n]) =>
               proc'[n].reqs \in {proc[n].reqs, <<>>}]_vars

\* Both requests of an invocation were issued, one each, and answered.
C17_Witness ==
    \E n \in Navs :
        /\ proc[n].pc = "cRead"
        /\ proc[n].reqs = <<"search", "profile">>
        /\ proc[n].pJson.t = "ok"

\* C18: when every handler and every runLookup invocation has terminated, the
\* status stored for an open tab is not one of the transient values
\* searching and success.
C18_NoTransientStatusAtRest ==
    \A t \in Tabs :
        (open[t] /\ Quiescent) => store[t].status \notin {"searching", "success"}

\* C19: while a tab stays closed, no step writes a key of it.
C19_NoWriteAfterClose ==
    [][\A t \in Tabs : (~open[t] /\ ~open'[t]) => store'[t] = store[t]]_vars

\* C20: whenever the status stored for a tab is multiple_results, the profile
\* stored for it is an array of at least two candidates.
C20_MultipleResultsHasList ==
    \A t \in Tabs :
        store[t].status = "multiple_results" =>
            /\ store[t].profile.t = "arr"
            /\ Len(store[t].profile.items) >= 2

\* The back button has stored multiple_results with the list again, after a
\* selection had replaced the list by a profile record.
C20_Witness ==
    \E t \in Tabs :
        /\ store[t].status = "multiple_results"
        /\ store[t].profile = Arr(<<CandX, CandShop>>, store[t].profile.q)
        /\ store[t].last = store[t].profile
        /\ popup.pc = "idle"
        /\ Quiescent

====
